---- MODULE Spec2Model ----
(***************************************************************************)
(* Model of scripts/decode-ascii-qr.py: extraction of the ASCII QR block   *)
(* from terminal text, its rasterisation into a two-level image, and the   *)
(* main pipeline around the external decoder.                              *)
(*                                                                         *)
(* A line of text is a sequence of characters; a text, after               *)
(* text.split('\n'), is a non-empty sequence of lines.                     *)
(***************************************************************************)
EXTENDS Naturals, Integers, Sequences, FiniteSets, TLC

VARIABLES
    pc,        \* position of the run
    text,      \* lines of the input text (text.split('\n'))
    qr_lines,  \* list returned by extract_qr_ascii / passed to ascii_qr_to_image
    qr_src,    \* for each element of qr_lines, the index of its line in text
    again,     \* results of running extract_qr_ascii on its own output
    image,     \* the image written by img.save, or None
    bitmap,    \* a binary bitmap that is rendered as half-block text
    matrix,    \* the pixel matrix that the module mapping gives for qr_lines
    proc,      \* the process running main: streams, exit code, stages, locals
    files      \* names of the files that exist in the working directory

vars == <<pc, text, qr_lines, qr_src, again, image, bitmap, matrix, proc, files>>

None == "None"

(***************************************************************************)
(* Characters.  The three block glyphs are written with ASCII stand-ins.   *)
(***************************************************************************)
FullBlock == "F"     \* U+2588
UpperHalf == "U"     \* U+2580
LowerHalf == "L"     \* U+2584
Space     == " "
Tab       == "t"     \* a whitespace character other than the space
Other     == "x"     \* any character that is neither whitespace nor a glyph

Whitespace == {Space, Tab}
Chars      == {FullBlock, UpperHalf, LowerHalf, Space, Tab, Other}

\* '▄' * 10
BorderLen == 10

Repeat(c, n) == [i \in 1..n |-> c]

SetMin(S) == CHOOSE m \in S : \A k \in S : m <= k
SetMax(S) == CHOOSE m \in S : \A k \in S : m >= k

(***************************************************************************)
(* extract_qr_ascii                                                        *)
(***************************************************************************)

\* line.startswith('▄' * 10)
StartsWithBorder(line) ==
    /\ Len(line) >= BorderLen
    /\ SubSeq(line, 1, BorderLen) = Repeat(LowerHalf, BorderLen)

\* line.strip(): the line without its leading and trailing whitespace
Strip(line) ==
    LET keep == {i \in 1..Len(line) : line[i] \notin Whitespace}
    IN  IF keep = {} THEN <<>> ELSE SubSeq(line, SetMin(keep), SetMax(keep))

\* any(c in line for c in ['█', '▀', '▄', ' '])
AnyQrChar(line) ==
    \E c \in {FullBlock, UpperHalf, LowerHalf, Space} :
        \E i \in 1..Len(line) : line[i] = c

\* line.strip() and any(...): the line is collected
CollectsLine(line) == Strip(line) # <<>> /\ AnyQrChar(line)

\* variant of BreaksOnBlank: a blank line does not end the loop
MutNoBreakOnBlank(line) == FALSE

\* not line.strip(): the loop ends
BreaksOnBlank(line) == Strip(line) = <<>>

\* qr_lines.append(line)
AppendLine(st, line, i) ==
    [st EXCEPT !.qr_lines = Append(@, line), !.qr_src = Append(@, i)]

\* variant of OpenBlock: the first border line opens the block and is dropped
MutOpenWithoutMarker(st, line, i) ==
    [st EXCEPT !.in_qr = TRUE, !.start_pattern_found = TRUE]

\* the first border line is collected and opens the block
OpenBlock(st, line, i) ==
    [AppendLine(st, line, i) EXCEPT !.in_qr = TRUE, !.start_pattern_found = TRUE]

\* the for loop over lines, from index i on; st holds the loop's locals
RECURSIVE ScanLines(_, _, _)
ScanLines(lines, i, st) ==
    IF i > Len(lines) THEN st
    ELSE LET line == lines[i] IN
        IF ~st.start_pattern_found /\ StartsWithBorder(line)
        THEN ScanLines(lines, i + 1, OpenBlock(st, line, i))
        ELSE IF st.in_qr
        THEN IF StartsWithBorder(line)
             THEN AppendLine(st, line, i)                        \* break
             ELSE IF CollectsLine(line)
             THEN ScanLines(lines, i + 1, AppendLine(st, line, i))
             ELSE IF BreaksOnBlank(line)
             THEN st                                             \* break
             ELSE ScanLines(lines, i + 1, st)
        ELSE ScanLines(lines, i + 1, st)

ScanResult(lines) ==
    ScanLines(lines, 1,
              [qr_lines |-> <<>>, qr_src |-> <<>>,
               in_qr |-> FALSE, start_pattern_found |-> FALSE])

extract_qr_ascii(lines) == ScanResult(lines).qr_lines

\* '\n'.join(lines).split('\n'): the empty list gives one empty line
JoinSplit(lines) == IF lines = <<>> THEN << <<>> >> ELSE lines

(***************************************************************************)
(* Extraction on its own: the input text is drawn from Texts,              *)
(* extract_qr_ascii is applied to it, and then applied again to its own    *)
(* result, once as it is and once between two fresh border lines.          *)
(***************************************************************************)
MaxLines == 3

BorderLine == Repeat(LowerHalf, BorderLen)

\* candidate lines: 0, 9 or 10 lower-half blocks, then at most one more
\* character (the upper-half block is read like the full block and left out)
TextLines ==
    { Repeat(LowerHalf, n) \o tail :
        n \in {0, BorderLen - 1, BorderLen},
        tail \in {<<>>} \cup { <<c>> : c \in Chars \ {UpperHalf} } }

Texts == UNION { [1..n -> TextLines] : n \in 1..MaxLines }

\* a process that has not run main: nothing written, no exit code yet
NoProc == [argv |-> None, stdout |-> <<>>, stderr |-> <<>>, exit_code |-> None,
           invoked |-> <<>>, raised |-> {}, img_path |-> None, url |-> None,
           crashed |-> FALSE]

\* the block between a fresh border line before and after
Rewrap(lines) == <<BorderLine>> \o JoinSplit(lines) \o <<BorderLine>>

InitExtract ==
    /\ pc = "input"
    /\ text \in Texts
    /\ qr_lines = <<>>
    /\ qr_src = <<>>
    /\ again = None
    /\ image = None
    /\ bitmap = <<>>
    /\ matrix = <<>>
    /\ proc = NoProc
    /\ files = {}

Extract ==
    /\ pc = "input"
    /\ qr_lines' = ScanResult(text).qr_lines
    /\ qr_src' = ScanResult(text).qr_src
    /\ pc' = "extracted"
    /\ UNCHANGED <<text, again, image, bitmap, matrix, proc, files>>

ReExtract ==
    /\ pc = "extracted"
    /\ again' = [plain   |-> extract_qr_ascii(JoinSplit(qr_lines)),
                 wrapped |-> extract_qr_ascii(Rewrap(qr_lines))]
    /\ pc' = "reextracted"
    /\ UNCHANGED <<text, qr_lines, qr_src, image, bitmap, matrix, proc, files>>

NextExtract == Extract \/ ReExtract

SpecExtract == InitExtract /\ [][NextExtract]_vars

(***************************************************************************)
(* Properties of the extraction                                            *)
(***************************************************************************)
QrAlphabet == {FullBlock, UpperHalf, LowerHalf, Space}

OnlyQrAlphabet(line) == \A j \in 1..Len(line) : line[j] \in QrAlphabet
WhitespaceOnly(line) == \A j \in 1..Len(line) : line[j] \in Whitespace

\* s is the index of the first border marker of the text
FirstMarker(s) ==
    /\ s \in 1..Len(text)
    /\ StartsWithBorder(text[s])
    /\ \A k \in 1..(s - 1) : ~StartsWithBorder(text[k])

\* C3: every line of the block returned by extract_qr_ascii is non-empty and
\* made only of QR-alphabet characters.
C3_BlockLinesAllQrAlphabet ==
    pc = "extracted" =>
        \A i \in 1..Len(qr_lines) :
            qr_lines[i] # <<>> /\ OnlyQrAlphabet(qr_lines[i])

\* C4 as stated: after the first border marker, no line placed after the first
\* following line that is a border marker, whitespace-only, or holds a
\* character outside the QR-alphabet is in the returned block.
C4_StopsAtInvalidLineToo ==
    pc = "extracted" =>
        \A s, t \in 1..Len(text) :
            ( /\ FirstMarker(s)
              /\ t > s
              /\ \/ StartsWithBorder(text[t])
                 \/ WhitespaceOnly(text[t])
                 \/ ~OnlyQrAlphabet(text[t]) )
            => \A k \in 1..Len(qr_src) : qr_src[k] <= t

\* t is the first line after line s that is a border marker or whitespace-only
FirstStop(s, t) ==
    /\ t \in (s + 1)..Len(text)
    /\ StartsWithBorder(text[t]) \/ WhitespaceOnly(text[t])
    /\ \A k \in (s + 1)..(t - 1) :
        ~StartsWithBorder(text[k]) /\ ~WhitespaceOnly(text[k])

\* C4 amended: after the first border marker, no line placed after the first
\* following line that is a border marker or whitespace-only is in the
\* returned block; a second border marker is itself the last line of the
\* block, a whitespace-only line is not in it.
C4_StopsAtBorderOrBlank ==
    pc = "extracted" =>
        \A s, t \in 1..Len(text) :
            (FirstMarker(s) /\ FirstStop(s, t)) =>
                /\ \A k \in 1..Len(qr_src) : qr_src[k] <= t
                /\ qr_src # <<>>
                /\ IF StartsWithBorder(text[t])
                   THEN qr_src[Len(qr_src)] = t
                   ELSE qr_src[Len(qr_src)] < t

\* a whitespace-only line ended the block, and a line that would have been
\* collected follows it
C4_Witness ==
    /\ pc = "extracted"
    /\ qr_lines # <<>>
    /\ \E s, t \in 1..Len(text) :
        /\ FirstMarker(s)
        /\ t > s
        /\ WhitespaceOnly(text[t])
        /\ \A k \in (s + 1)..(t - 1) : ~StartsWithBorder(text[k])
        /\ t < Len(text)
        /\ OnlyQrAlphabet(text[t + 1]) /\ ~WhitespaceOnly(text[t + 1])

\* a text whose first border marker is followed by lines of QR-alphabet
\* characters, none whitespace-only, and then by a second border marker
ValidInput ==
    \E s, e \in 1..Len(text) :
        /\ FirstMarker(s)
        /\ e > s
        /\ StartsWithBorder(text[e])
        /\ \A k \in (s + 1)..(e - 1) :
            /\ ~StartsWithBorder(text[k])
            /\ OnlyQrAlphabet(text[k])
            /\ ~WhitespaceOnly(text[k])

\* C6 as stated: extracting from the block wrapped in fresh border lines gives
\* the block again.
C6_IdempotentWhenRewrapped ==
    (pc = "reextracted" /\ ValidInput) => again.wrapped = qr_lines

\* C6 amended: extracting from the returned block as it is, with no border
\* line added, gives the block again.
C6_IdempotentOnOwnOutput ==
    pc = "reextracted" => again.plain = qr_lines

\* a valid input with data lines between its markers was extracted twice
C6_Witness ==
    /\ pc = "reextracted"
    /\ ValidInput
    /\ Len(qr_lines) >= 3
    /\ again.wrapped # qr_lines

(***************************************************************************)
(* ascii_qr_to_image                                                       *)
(*                                                                         *)
(* An image is its size <<width, height>> and its pixels, pixels[py][px]   *)
(* with px in 0..width-1, py in 0..height-1; 1 is white and 0 is black.    *)
(***************************************************************************)
module_size == 4

\* the factor of quiet_zone = 4 * module_size
QuietFactor == 4

\* the factor of img.resize((img_width * 2, img_height * 2), NEAREST)
ResizeFactor == 2

output_path == "qr_temp.png"

White == 1
Black == 0

\* max(len(line) for line in qr_lines)
max_width(lines) == SetMax({Len(lines[y]) : y \in 1..Len(lines)})

qr_width(lines) == max_width(lines) * module_size

\* variant of qr_height: one row of modules per line
MutHeightOneRowPerLine(lines) == Len(lines) * module_size

\* each line is 2 rows of modules
qr_height(lines) == Len(lines) * 2 * module_size

quiet_zone == QuietFactor * module_size

img_width(lines) == qr_width(lines) + 2 * quiet_zone
img_height(lines) == qr_height(lines) + 2 * quiet_zone

\* variants of top_black and bottom_black: the two half blocks exchanged
MutTopBlackOfLowerHalf(char) == char = FullBlock \/ char = LowerHalf
MutBottomBlackOfUpperHalf(char) == char = FullBlock \/ char = UpperHalf

\* the if / elif chain on char
top_black(char) == char = FullBlock \/ char = UpperHalf
bottom_black(char) == char = FullBlock \/ char = LowerHalf

\* variant of x_start: the quiet zone offset is left out
MutXStartNoQuietZone(x) == x * module_size

\* x_start, y_top_start, y_bottom_start of the character at column x of line y
\* (both counted from 0, as enumerate does)
x_start(x) == quiet_zone + x * module_size
y_top_start(y) == quiet_zone + y * 2 * module_size
y_bottom_start(y) == quiet_zone + (y * 2 + 1) * module_size

\* range(module_size) from a start: start .. start + module_size - 1
InRange(p, start) == start <= p /\ p < start + module_size

\* some putpixel of the two nested loops sets pixel (px, py) to 0
Drawn(lines, px, py) ==
    \E y \in 0..(Len(lines) - 1) :
        \E x \in 0..(Len(lines[y + 1]) - 1) :
            LET char == lines[y + 1][x + 1] IN
            /\ InRange(px, x_start(x))
            /\ \/ top_black(char) /\ InRange(py, y_top_start(y))
               \/ bottom_black(char) /\ InRange(py, y_bottom_start(y))

\* Image.new('1', (img_width, img_height), 1) followed by the drawing loops
DrawnImage(lines) ==
    [size   |-> <<img_width(lines), img_height(lines)>>,
     pixels |-> [py \in 0..(img_height(lines) - 1) |->
                    [px \in 0..(img_width(lines) - 1) |->
                        IF Drawn(lines, px, py) THEN Black ELSE White]]]

\* img.resize((w * 2, h * 2), NEAREST): each pixel becomes a 2 x 2 square
Resize(img) ==
    [size   |-> <<img.size[1] * ResizeFactor, img.size[2] * ResizeFactor>>,
     pixels |-> [py \in 0..(img.size[2] * ResizeFactor - 1) |->
                    [px \in 0..(img.size[1] * ResizeFactor - 1) |->
                        img.pixels[py \div ResizeFactor][px \div ResizeFactor]]]]

\* the image that img.save writes for a non-empty list of lines
SavedImage(lines) == Resize(DrawnImage(lines))

\* the module at column c, row r (from 0) of the matrix that the loops draw:
\* row 2y is the top half and row 2y+1 the bottom half of line y
ModuleBlack(lines, c, r) ==
    LET line == lines[r \div 2 + 1] IN
    /\ c < Len(line)
    /\ IF r % 2 = 0 THEN top_black(line[c + 1]) ELSE bottom_black(line[c + 1])

\* the matrix of modules, qr_height / module_size rows of qr_width / module_size
\* cells; 1 is a black module and 0 a white one
PixelMatrix(lines) ==
    [r \in 1..(qr_height(lines) \div module_size) |->
        [c \in 1..(qr_width(lines) \div module_size) |->
            IF ModuleBlack(lines, c - 1, r - 1) THEN 1 ELSE 0]]

\* the value returned: None for an empty list, else output_path
ascii_qr_to_image(lines) == IF lines = <<>> THEN None ELSE output_path

(***************************************************************************)
(* Rasterisation on its own: the list of lines is drawn from Blocks and    *)
(* ascii_qr_to_image is applied to it.                                     *)
(***************************************************************************)
MaxBlockLines == 2
MaxBlockChars == 2

\* the tab is mapped like any other character and left out
BlockChars == Chars \ {Tab}

\* the lines of exactly n characters
LinesOfLen(n) == [1..n -> BlockChars]

\* the lists of exactly n lines that hold at most budget characters in all
RECURSIVE BlocksOf(_, _)
BlocksOf(n, budget) ==
    IF n = 0 THEN {<<>>}
    ELSE UNION { { <<line>> \o rest : line \in LinesOfLen(k),
                                      rest \in BlocksOf(n - 1, budget - k) } :
                 k \in 0..budget }

\* lists of at most MaxBlockLines lines holding at most MaxBlockChars characters
Blocks == UNION { BlocksOf(n, MaxBlockChars) : n \in 0..MaxBlockLines }

InitImage ==
    /\ pc = "block"
    /\ qr_lines \in Blocks
    /\ text = <<>>
    /\ qr_src = <<>>
    /\ again = None
    /\ image = None
    /\ bitmap = <<>>
    /\ matrix = <<>>
    /\ proc = NoProc
    /\ files = {}

Rasterize ==
    /\ pc = "block"
    /\ proc' = [proc EXCEPT !.img_path = ascii_qr_to_image(qr_lines)]
    /\ IF qr_lines = <<>>
       THEN UNCHANGED <<image, files>>
       ELSE /\ image' = SavedImage(qr_lines)
            /\ files' = files \cup {output_path}
    /\ pc' = "saved"
    /\ UNCHANGED <<text, qr_lines, qr_src, again, bitmap, matrix>>

NextImage == Rasterize

SpecImage == InitImage /\ [][NextImage]_vars

(***************************************************************************)
(* Properties of the saved image                                           *)
(***************************************************************************)
\* side of a module, and width of the quiet zone, in pixels of the saved image
ModulePx == module_size * ResizeFactor
QuietPx == QuietFactor * ModulePx

WidestLine == SetMax({Len(qr_lines[y]) : y \in 1..Len(qr_lines)})

\* every pixel of the module at column mx, row my of the matrix has colour col
ModuleHasColour(mx, my, col) ==
    \A dx, dy \in 0..(ModulePx - 1) :
        image.pixels[QuietPx + my * ModulePx + dy][QuietPx + mx * ModulePx + dx] = col

ColourIf(black) == IF black THEN Black ELSE White

\* C1: the module at (x, 2y) is black iff the character at column x of line y
\* is the full or the upper-half block, the module at (x, 2y+1) iff it is the
\* full or the lower-half block; any other character, and every column to the
\* right of a shorter line, gives two white modules.
C1_ModuleMapping ==
    (pc = "saved" /\ qr_lines # <<>>) =>
        \A y \in 0..(Len(qr_lines) - 1) : \A x \in 0..(WidestLine - 1) :
            LET line == qr_lines[y + 1]
                char == IF x < Len(line) THEN line[x + 1] ELSE Space
            IN  /\ ModuleHasColour(x, 2 * y,
                                   ColourIf(char \in {FullBlock, UpperHalf}))
                /\ ModuleHasColour(x, 2 * y + 1,
                                   ColourIf(char \in {FullBlock, LowerHalf}))

\* an image of two lines, the second shorter than the first, holding a
\* half block and a character outside the alphabet
C1_Witness ==
    /\ pc = "saved"
    /\ Len(qr_lines) = 2
    /\ Len(qr_lines[2]) < Len(qr_lines[1])
    /\ \E x \in 1..Len(qr_lines[1]) : qr_lines[1][x] = UpperHalf
    /\ \E x \in 1..Len(qr_lines[1]) : qr_lines[1][x] = Other
    /\ output_path \in files

\* width and height of the pixel matrix, read from the saved image
MatrixWidth == image.size[1] \div ModulePx - 2 * QuietFactor
MatrixHeight == image.size[2] \div ModulePx - 2 * QuietFactor

\* C2: the pixel matrix of a non-empty block is as wide as the longest line
\* and exactly twice as high as the number of lines.
C2_MatrixSize ==
    (pc = "saved" /\ qr_lines # <<>>) =>
        /\ image.size[1] % ModulePx = 0
        /\ image.size[2] % ModulePx = 0
        /\ MatrixWidth = WidestLine
        /\ MatrixHeight = 2 * Len(qr_lines)

\* a block of a single line was rasterised and its matrix has two rows
C2_Witness ==
    /\ pc = "saved"
    /\ Len(qr_lines) = 1
    /\ Len(qr_lines[1]) >= 2
    /\ output_path \in files
    /\ MatrixHeight = 2

\* C7: no pixel closer than 4 module widths to an edge of the saved image is
\* black.
C7_QuietZone ==
    (pc = "saved" /\ qr_lines # <<>>) =>
        \A py \in 0..(image.size[2] - 1) : \A px \in 0..(image.size[1] - 1) :
            ( \/ px < QuietPx
              \/ py < QuietPx
              \/ px >= image.size[1] - QuietPx
              \/ py >= image.size[2] - QuietPx )
            => image.pixels[py][px] = White

\* an image with black modules in its first and last row and column
C7_Witness ==
    /\ pc = "saved"
    /\ qr_lines # <<>>
    /\ \A y \in 1..Len(qr_lines) :
        /\ Len(qr_lines[y]) = WidestLine
        /\ \A x \in 1..Len(qr_lines[y]) : qr_lines[y][x] = FullBlock
    /\ WidestLine >= 1
    /\ output_path \in files
    /\ image.pixels[QuietPx][QuietPx] = Black

(***************************************************************************)
(* Round trip: a bitmap is rendered as half-block text between two border  *)
(* lines, the block is extracted from that text and mapped to modules.     *)
(* A bitmap is a sequence of rows of 0 (white) and 1 (black).              *)
(***************************************************************************)
MaxBitmapWidth == 2
MaxBitmapCells == 8

\* the bitmaps of w columns and an even number of rows, of at most
\* MaxBitmapCells cells
SmallBitmaps ==
    UNION { UNION { [1..(2 * k) -> [1..w -> {0, 1}]] :
                    k \in { j \in 1..MaxBitmapCells : 2 * j * w <= MaxBitmapCells } } :
            w \in 1..MaxBitmapWidth }

\* the bitmap with its last column repeated n more times
Widen(bm, n) ==
    [r \in 1..Len(bm) |-> bm[r] \o Repeat(bm[r][Len(bm[r])], n)]

\* the small bitmaps, and each of them made wider than a border marker
Bitmaps == SmallBitmaps \cup { Widen(bm, BorderLen) : bm \in SmallBitmaps }

\* the glyph that shows a top and a bottom pixel
HalfBlockChar(top, bottom) ==
    IF top = 1 /\ bottom = 1 THEN FullBlock
    ELSE IF top = 1 THEN UpperHalf
    ELSE IF bottom = 1 THEN LowerHalf
    ELSE Space

\* line i of the rendering shows rows 2i-1 and 2i of the bitmap
RenderLine(bm, i) ==
    [c \in 1..Len(bm[1]) |-> HalfBlockChar(bm[2 * i - 1][c], bm[2 * i][c])]

\* the rendering between two border lines, each as wide as the bitmap and at
\* least BorderLen wide
Render(bm) ==
    LET border == Repeat(LowerHalf, IF Len(bm[1]) > BorderLen THEN Len(bm[1]) ELSE BorderLen)
    IN  <<border>> \o [i \in 1..(Len(bm) \div 2) |-> RenderLine(bm, i)] \o <<border>>

InitRoundTrip ==
    /\ pc = "bitmap"
    /\ bitmap \in Bitmaps
    /\ text = <<>>
    /\ qr_lines = <<>>
    /\ qr_src = <<>>
    /\ again = None
    /\ image = None
    /\ matrix = <<>>
    /\ proc = NoProc
    /\ files = {}

RenderBitmap ==
    /\ pc = "bitmap"
    /\ text' = Render(bitmap)
    /\ pc' = "rendered"
    /\ UNCHANGED <<qr_lines, qr_src, again, image, bitmap, matrix, proc, files>>

Reconstruct ==
    /\ pc = "rendered"
    /\ qr_lines' = ScanResult(text).qr_lines
    /\ qr_src' = ScanResult(text).qr_src
    /\ matrix' = IF qr_lines' = <<>> THEN <<>> ELSE PixelMatrix(qr_lines')
    /\ pc' = "reconstructed"
    /\ UNCHANGED <<text, again, image, bitmap, proc, files>>

NextRoundTrip == RenderBitmap \/ Reconstruct

SpecRoundTrip == InitRoundTrip /\ [][NextRoundTrip]_vars

(***************************************************************************)
(* Properties of the round trip                                            *)
(***************************************************************************)
BitmapWidth == Len(bitmap[1])

\* rows 2i-1 and 2i of the bitmap are white in every column
WhitePair(i) ==
    \A c \in 1..BitmapWidth : bitmap[2 * i - 1][c] = 0 /\ bitmap[2 * i][c] = 0

\* rows 2i-1 and 2i render as a line that begins with BorderLen lower-half blocks
MarkerPair(i) ==
    /\ BitmapWidth >= BorderLen
    /\ \A c \in 1..BorderLen : bitmap[2 * i - 1][c] = 0 /\ bitmap[2 * i][c] = 1

\* no line of the rendering is whitespace-only or reads as a border marker
Renderable ==
    \A i \in 1..(Len(bitmap) \div 2) : ~WhitePair(i) /\ ~MarkerPair(i)

\* C5 as stated: the matrix recovered from the rendering equals the bitmap.
C5_RoundTripExact ==
    pc = "reconstructed" => matrix = bitmap

\* C5 amended: when no line of the rendering is whitespace-only or begins with
\* ten lower-half blocks, the recovered matrix holds the bitmap unchanged in
\* its rows 3 to n+2 and columns 1 to w, white to the right of it, between the
\* two rows of the top border line and the two rows of the bottom border line.
C5_RoundTripFramed ==
    (pc = "reconstructed" /\ Renderable) =>
        LET n == Len(bitmap)
            w == BitmapWidth
            mw == IF w > BorderLen THEN w ELSE BorderLen
        IN  /\ Len(matrix) = n + 4
            /\ \A r \in 1..(n + 4) : Len(matrix[r]) = mw
            /\ \A r \in 1..n : \A c \in 1..mw :
                matrix[r + 2][c] = IF c <= w THEN bitmap[r][c] ELSE 0
            /\ \A c \in 1..mw :
                /\ matrix[1][c] = 0 /\ matrix[2][c] = 1
                /\ matrix[n + 3][c] = 0 /\ matrix[n + 4][c] = 1

\* a bitmap of four rows or more, two columns or more, with black and white
\* cells, was rendered and reconstructed
C5_Witness ==
    /\ pc = "reconstructed"
    /\ Renderable
    /\ Len(bitmap) >= 4
    /\ BitmapWidth >= 2
    /\ \E r \in 1..Len(bitmap) : \E c \in 1..BitmapWidth : bitmap[r][c] = 0
    /\ bitmap[1][1] = 1 /\ bitmap[2][1] = 0
    /\ bitmap[3][2] = 0 /\ bitmap[4][2] = 1

(***************************************************************************)
(* main                                                                    *)
(*                                                                         *)
(* proc.stdout and proc.stderr are the lines printed, each <<message,      *)
(* argument>>; proc.invoked lists the stages called, in order;             *)
(* proc.raised the external operations that raised; proc.crashed says the  *)
(* run ended by an exception that nothing caught (Python then prints a     *)
(* traceback on standard error and exits with code 1).                     *)
(***************************************************************************)
MaxInputLines == 2

InputTexts == UNION { [1..n -> TextLines] : n \in 1..MaxInputLines }

\* payloads the decoder may return: empty, or a URL
Payloads == {"", "https://example.com"}

MsgNoQrFound == "No QR code found in input"
MsgFound == "Found QR code with {n} lines"
MsgConvertFailed == "Failed to convert QR to image"
MsgConverted == "Converted to image: {path}"
MsgDecodeFailed == "Failed to decode QR code"
MsgNoPyzbar == "pyzbar not available, trying alternative method..."
MsgDecodeError == "Error decoding QR: {e}"
MsgTraceback == "Traceback (most recent call last):"

\* print(..., file=sys.stderr)
PrintErr(p, msg, arg) == [p EXCEPT !.stderr = Append(@, <<msg, arg>>)]

\* sys.exit(code)
Exit(p, code) == [p EXCEPT !.exit_code = code]

\* an exception leaves main: traceback on standard error, exit code 1
Uncaught(p, op) ==
    [PrintErr(p, MsgTraceback, op) EXCEPT
        !.exit_code = 1, !.crashed = TRUE, !.raised = @ \cup {op}]

Init ==
    /\ pc = "start"
    /\ proc \in { [NoProc EXCEPT !.argv = a] : a \in {"file", "stdin"} }
    /\ text = <<>>
    /\ qr_lines = <<>>
    /\ qr_src = <<>>
    /\ again = None
    /\ image = None
    /\ bitmap = <<>>
    /\ matrix = <<>>
    /\ files = {}

\* open(sys.argv[1]).read() or sys.stdin.read(), then split: either raises
ReadInput ==
    /\ pc = "start"
    /\ \/ /\ proc' = Uncaught(proc, "read")
          /\ pc' = "exited"
          /\ UNCHANGED text
       \/ /\ text' \in InputTexts
          /\ pc' = "read"
          /\ UNCHANGED proc
    /\ UNCHANGED <<qr_lines, qr_src, again, image, bitmap, matrix, files>>

\* qr_lines = extract_qr_ascii(text) and the test that follows
ExtractBlock ==
    /\ pc = "read"
    /\ qr_lines' = ScanResult(text).qr_lines
    /\ qr_src' = ScanResult(text).qr_src
    /\ LET p == [proc EXCEPT !.invoked = Append(@, "extract")] IN
       IF qr_lines' = <<>>
       THEN /\ proc' = Exit(PrintErr(p, MsgNoQrFound, ""), 1)
            /\ pc' = "exited"
       ELSE /\ proc' = PrintErr(p, MsgFound, ToString(Len(qr_lines')))
            /\ pc' = "extracted"
    /\ UNCHANGED <<text, again, image, bitmap, matrix, files>>

\* img_path = ascii_qr_to_image(qr_lines) and the test that follows; img.save
\* may raise, and the file it writes is described by SavedImage(qr_lines)
ConvertToImage ==
    /\ pc = "extracted"
    /\ LET p == [proc EXCEPT !.invoked = Append(@, "convert")] IN
       \/ /\ qr_lines # <<>>
          /\ proc' = Uncaught(p, "save")
          /\ pc' = "exited"
          /\ UNCHANGED files
       \/ LET path == ascii_qr_to_image(qr_lines) IN
          IF path = None
          THEN /\ proc' = Exit(PrintErr(p, MsgConvertFailed, ""), 1)
               /\ pc' = "exited"
               /\ UNCHANGED files
          ELSE /\ proc' = PrintErr([p EXCEPT !.img_path = path], MsgConverted, path)
               /\ files' = files \cup {path}
               /\ pc' = "converted"
    /\ UNCHANGED <<text, qr_lines, qr_src, again, image, bitmap, matrix>>

\* decode_qr_image(image_path): the decoder is missing, raises, finds no
\* symbol, or gives the payload of the first symbol
decode_qr_image(p, outcome) ==
    IF outcome = "ImportError"
    THEN [PrintErr(p, MsgNoPyzbar, "") EXCEPT !.url = None, !.raised = @ \cup {"decode"}]
    ELSE IF outcome = "Exception"
    THEN [PrintErr(p, MsgDecodeError, "e") EXCEPT !.url = None, !.raised = @ \cup {"decode"}]
    ELSE IF outcome = "NoSymbol"
    THEN [p EXCEPT !.url = None]
    ELSE [p EXCEPT !.url = outcome]

\* url = decode_qr_image(img_path) and the end of main
DecodeImage ==
    /\ pc = "converted"
    /\ \E outcome \in {"ImportError", "Exception", "NoSymbol"} \cup Payloads :
        LET p == decode_qr_image([proc EXCEPT !.invoked = Append(@, "decode")], outcome) IN
        IF p.url # None /\ p.url # ""
        THEN proc' = Exit([p EXCEPT !.stdout = Append(@, p.url)], 0)
        ELSE proc' = Exit(PrintErr(p, MsgDecodeFailed, ""), 1)
    /\ pc' = "exited"
    /\ UNCHANGED <<text, qr_lines, qr_src, again, image, bitmap, matrix, files>>

\* the script is run again in the same directory
RunAgain ==
    /\ pc = "exited"
    /\ pc' = "start"
    /\ proc' \in { [NoProc EXCEPT !.argv = a] : a \in {"file", "stdin"} }
    /\ text' = <<>>
    /\ qr_lines' = <<>>
    /\ qr_src' = <<>>
    /\ UNCHANGED <<again, image, bitmap, matrix, files>>

Next == ReadInput \/ ExtractBlock \/ ConvertToImage \/ DecodeImage \/ RunAgain

Spec == Init /\ [][Next]_vars

(***************************************************************************)
(* Properties of main                                                      *)
(***************************************************************************)
Printed(stream, msg) == \E i \in 1..Len(stream) : stream[i][1] = msg

\* the diagnostic of each stage
StageDiagnostic(stage) ==
    IF stage = "extract" THEN MsgNoQrFound
    ELSE IF stage = "convert" THEN MsgConvertFailed
    ELSE MsgDecodeFailed

\* C8: a run that ends in failure has printed nothing on standard output, has
\* exit code 1 and has printed on standard error the diagnostic of the stage
\* that failed, which is the last stage called; an input without a border
\* marker ends with "No QR code found" and exit code 1; the payload is on
\* standard output only in a run that exits with code 0.
C8_FailureReporting ==
    pc = "exited" =>
        /\ proc.exit_code # 0 =>
            /\ proc.stdout = <<>>
            /\ proc.exit_code = 1
            /\ proc.invoked # <<>>
            /\ Printed(proc.stderr, StageDiagnostic(proc.invoked[Len(proc.invoked)]))
            /\ \A k \in 1..(Len(proc.invoked) - 1) :
                ~Printed(proc.stderr, StageDiagnostic(proc.invoked[k]))
        /\ proc.stdout # <<>> => proc.exit_code = 0
        /\ (text # <<>> /\ \A k \in 1..Len(text) : ~StartsWithBorder(text[k])) =>
            /\ Printed(proc.stderr, MsgNoQrFound)
            /\ proc.exit_code = 1

\* C9: when reading the input or the decoder raises, the run ends with a
\* diagnostic of the program on standard error and exit code 1, not with an
\* exception that nothing caught.
C9_IoErrorsHandled ==
    (pc = "exited" /\ proc.raised \cap {"read", "decode"} # {}) =>
        /\ ~proc.crashed
        /\ proc.exit_code = 1
        /\ \E stage \in {"extract", "convert", "decode"} :
            Printed(proc.stderr, StageDiagnostic(stage))

\* C10: when a run in which ascii_qr_to_image wrote the image has ended, the
\* image file no longer exists, and no run starts with the file of an
\* earlier one.
C10_ImageReleased ==
    /\ (pc = "exited" /\ proc.img_path # None) => proc.img_path \notin files
    /\ pc = "start" => files = {}

====
